---- MODULE Spec2Model ----
(***************************************************************************)
(* State-machine model of the analysis toolkit's two cores:                *)
(*   - CollaborativeAnalyzer (src/src/builders/collaborative-analyzer.ts): *)
(*     fan-out to the provider engines, fan-in, consensus merge, agreement *)
(*     scoring and conflict resolution;                                    *)
(*   - CacheManager (src/unnamed/part_004): the LRU-backed result cache.   *)
(*                                                                         *)
(* Numbers: provider weights are integers (tenths: 5 stands for 0.5) and   *)
(* every quotient the code computes in floating point is kept as an exact  *)
(* fraction <<numerator, denominator>>.                                    *)
(* An absent (undefined) list is the empty sequence.                       *)
(***************************************************************************)
EXTENDS Integers, Sequences, FiniteSets, TLC

\* ------------------------------------------------------------------ bounds
\* number of provider engines handed to the CollaborativeAnalyzer
MaxProviders == 3

\* the store's entry cap (max: 1000 in the source, scaled down)
MaxEntryCount == 2
\* maxSizeBytes, the configured size cap (scaled down)
MaxSizeBytes == 3
\* config.ttl in clock ticks (scaled down)
Ttl == 2
\* the clock stops here
MaxTime == 3
\* cache calls per behaviour
MaxSteps == 4
\* semantic calls suspended at the same time
MaxPending == 1
\* concurrent or successive calls of AnalysisEngine.analyze
MaxAnalyses == 3
\* analyze / analyzeWithMethod calls made on one analyzer
MaxInvocations == 3
\* length of the content given to analyzeStream
MaxContent == 6
\* configured streaming.chunkSize and streaming.overlap
MaxChunkSize == 4
MaxOverlap == 5
\* contents given to processContents, and configured batchSize
MaxContents == 4
MaxBatchSize == 3

\* ------------------------------------------------------- program constants
SimilarityThresholdNum == 17
SimilarityThresholdDen == 20
TopItems == 5
TopRecommendations == 10
RecommendationWeightNum == 3
RecommendationWeightDen == 10
MaxAdditionalKeyPoints == 3

VARIABLES
    engines,     \* this.engines: weight of each provider engine
    consensus,   \* this.consensus: method, requireAgreement, conflictResolution
    request,     \* the request under analysis (its content class)
    pc,          \* position of analyze(): idle, fanout, awaiting, done, error
    calls,       \* per engine: notcalled, inflight, ok, failed
    returned,    \* per engine: the AnalysisResult engine.analyze resolved with
    outcome      \* what analyze() returned or threw

consensusVars == <<engines, consensus, request, pc, calls, returned, outcome>>

VARIABLES
    strategy,    \* this.config.strategy
    cache,       \* this.cache: the LRU store, least recently used entry first
    embeddings,  \* this.embeddings, in insertion order
    stats,       \* this.stats
    now,         \* the clock (Date.now / performance.now)
    pending,     \* semantic get / set calls suspended at await generateEmbedding
    last,        \* the cache call that completed last
    prev,        \* the cache call that completed before it
    steps        \* cache calls started so far

cacheVars == <<strategy, cache, embeddings, stats, now, pending, last, prev, steps>>

VARIABLES
    requests,    \* the requests whose keys are compared
    fingerprint, \* per request: <<>> or <<its cache key data>>
    analyses     \* per AnalysisEngine.analyze call: its position and result

engineVars == <<requests, fingerprint, analyses>>

VARIABLES
    invocations, \* per analyze / analyzeWithMethod call on one analyzer: its position
    stream,      \* StreamAnalyzer.analyzeStream: configuration, locals, position
    bulk         \* BulkAnalyzer.processContents: configuration, locals, position

builderVars == <<invocations, stream, bulk>>

None == "none"
Providers == 1..MaxProviders

\* ------------------------------------------------------------ sequences
Range(s) == {s[i] : i \in 1..Len(s)}

Min2(a, b) == IF a <= b THEN a ELSE b

Take(s, n) == SubSeq(s, 1, Min2(n, Len(s)))

\* Array.prototype.indexOf: first index holding v
IndexOf(s, v) == CHOOSE i \in 1..Len(s) : s[i] = v /\ \A j \in 1..(i - 1) : s[j] # v

\* Math.max(...s) of a non-empty list
MaxOf(s) == CHOOSE m \in Range(s) : \A x \in Range(s) : m >= x

Occurrences(s, x) == Cardinality({i \in 1..Len(s) : s[i] = x})

\* keys of a Map / Record in insertion order: first occurrences, in order
FirstSeen(s) ==
    LET first == {i \in 1..Len(s) : \A j \in 1..(i - 1) : s[j] # s[i]}
        nth(k) == CHOOSE i \in first : Cardinality({j \in first : j <= i}) = k
    IN [k \in 1..Cardinality(first) |-> s[nth(k)]]

\* Array.prototype.sort((a, b) => score[b] - score[a]): stable, descending
\* (s[i] comes after every heavier item and every earlier item as heavy)
SortDesc(s, score) ==
    LET before(i) == {j \in 1..Len(s) : \/ score[s[j]] > score[s[i]]
                                        \/ score[s[j]] = score[s[i]] /\ j <= i}
        at(k) == CHOOSE i \in 1..Len(s) : Cardinality(before(i)) = k
    IN [k \in 1..Len(s) |-> s[at(k)]]

RECURSIVE Flatten(_)
Flatten(ss) == IF ss = <<>> THEN <<>> ELSE ss[1] \o Flatten(Tail(ss))

RECURSIVE SumSeq(_)
SumSeq(s) == IF s = <<>> THEN 0 ELSE s[1] + SumSeq(Tail(s))

\* ------------------------------------------------------------ fractions
FracAdd(a, b) == <<a[1] * b[2] + b[1] * a[2], a[2] * b[2]>>
FracDivInt(a, n) == <<a[1], a[2] * n>>
FracLt(a, b) == a[1] * b[2] < b[1] * a[2]
FracEq(a, b) == a[1] * b[2] = b[1] * a[2]

RECURSIVE FracSum(_)
FracSum(s) == IF s = <<>> THEN <<0, 1>> ELSE FracAdd(s[1], FracSum(Tail(s)))

\* ------------------------------------------------- AnalysisResult values
\* The fields of an AnalysisResult the aggregator reads.  ai: aiAnalysis is
\* present; sentiment / keyPoints / themes / summary live inside aiAnalysis.
\* parsedSentiment: the sentiment of the parsed response, which the result
\* also carries (...parsedResult).
MkResult(s, kp, th) ==
    [id |-> 0, ai |-> TRUE, sentiment |-> s, keyPoints |-> kp, themes |-> th,
     summary |-> TRUE, recs |-> <<>>, sections |-> FALSE,
     status |-> "completed", error |-> FALSE, parsedSentiment |-> s]

\* performAnalysis: the result built from a parsed response; a response
\* without a sentiment gets sentiment: parsedResult.sentiment || 'neutral'
performAnalysis(parsed) ==
    [MkResult(IF parsed.sentiment = None THEN "neutral" ELSE parsed.sentiment,
              parsed.keyPoints, parsed.themes)
       EXCEPT !.parsedSentiment = parsed.sentiment, !.recs = parsed.recommendations]

SentimentOf(r) == IF r.ai THEN r.sentiment ELSE None
KeyPointsOf(r) == IF r.ai THEN r.keyPoints ELSE <<>>
ThemesOf(r) == IF r.ai THEN r.themes ELSE <<>>

\* the aiAnalysis object of results[i] after the merged copy, which shares it,
\* was assigned sentiment, keyPoints and themes
WriteAi(results, i, s, kp, th) ==
    [results EXCEPT ![i] = [@ EXCEPT !.sentiment = s, !.keyPoints = kp, !.themes = th]]

\* every occurrence counts one, whatever the provider's weight
ItemWeight_unweighted(lists, w, x) ==
    SumSeq([i \in 1..Len(lists) |-> Occurrences(lists[i], x)])

\* accumulated weight of item x: every occurrence in provider i adds w[i]
ItemWeight(lists, w, x) ==
    SumSeq([i \in 1..Len(lists) |-> w[i] * Occurrences(lists[i], x)])

WeightTable(lists, w) ==
    [x \in Range(Flatten(lists)) |-> ItemWeight(lists, w, x)]

\* labels reported by the results, one per result that has one
Sentiments(results) ==
    LET idx == {i \in 1..Len(results) : SentimentOf(results[i]) # None}
    IN [i \in 1..Len(results) |->
          IF i \in idx THEN <<SentimentOf(results[i])>> ELSE <<>>]

TopSentiment(results, w) ==
    LET lists == Sentiments(results)
        sorted == SortDesc(FirstSeen(Flatten(lists)), WeightTable(lists, w))
    IN IF sorted = <<>> THEN "neutral" ELSE sorted[1]

TopWeighted_unbounded(lists, w, n) ==
    SortDesc(FirstSeen(Flatten(lists)), WeightTable(lists, w))

TopWeighted(lists, w, n) ==
    Take(SortDesc(FirstSeen(Flatten(lists)), WeightTable(lists, w)), n)

\* ------------------------------------------------ weightedAverageConsensus
\* normalizedWeights[i] = weights[i] / totalWeight: the order of accumulated
\* normalised weights is the order of the accumulated weights themselves
MergedRecommendations(results, weights) ==
    LET lists == [i \in 1..Len(results) |-> results[i].recs]
        table == WeightTable(lists, weights)
        total == SumSeq(weights)
        kept == SelectSeq(FirstSeen(Flatten(lists)),
                    LAMBDA t : table[t] * RecommendationWeightDen
                                 > RecommendationWeightNum * total)
    IN Take(SortDesc(kept, table), TopRecommendations)

weightedAverageConsensus(results, weights) ==
    LET mi == IndexOf(weights, MaxOf(weights))
        base == results[mi]
        s == TopSentiment(results, weights)
        kp == TopWeighted([i \in 1..Len(results) |-> KeyPointsOf(results[i])],
                          weights, TopItems)
        th == TopWeighted([i \in 1..Len(results) |-> ThemesOf(results[i])],
                          weights, TopItems)
        shared == IF base.ai THEN WriteAi(results, mi, s, kp, th) ELSE results
    IN [result |-> [shared[mi] EXCEPT !.recs = MergedRecommendations(results, weights)],
        results |-> shared]

\* ----------------------------------------------------------- votingConsensus
Ones(results) == [i \in 1..Len(results) |-> 1]

MajorityItems(lists) ==
    LET votes == WeightTable(lists, [i \in 1..Len(lists) |-> 1])
    IN SelectSeq(FirstSeen(Flatten(lists)), LAMBDA x : 2 * votes[x] >= Len(lists))

votingConsensus(results) ==
    LET s == TopSentiment(results, Ones(results))
        kp == MajorityItems([i \in 1..Len(results) |-> KeyPointsOf(results[i])])
        th == MajorityItems([i \in 1..Len(results) |-> ThemesOf(results[i])])
        shared == IF results[1].ai THEN WriteAi(results, 1, s, kp, th) ELSE results
    IN [result |-> shared[1], results |-> shared]

\* -------------------------------------------------- expertSelectionConsensus
expertSelectionConsensus(results, weights) ==
    LET mi == IndexOf(weights, MaxOf(weights))
        expert == results[mi]
        others == SelectSeq([i \in 1..Len(results) |-> i], LAMBDA i : i # mi)
        offered == Flatten([k \in 1..Len(others) |-> KeyPointsOf(results[others[k]])])
        additional == Take(SelectSeq(offered, LAMBDA p : p \notin Range(KeyPointsOf(expert))),
                           MaxAdditionalKeyPoints)
        shared == IF expert.ai /\ Len(others) > 0 /\ Len(additional) > 0
                  THEN [results EXCEPT ![mi].keyPoints = @ \o additional]
                  ELSE results
    IN [result |-> shared[mi], results |-> shared]

\* --------------------------------------------------------- calculateAgreement
RECURSIVE SetToSeq(_)
SetToSeq(S) ==
    IF S = {} THEN <<>>
    ELSE LET x == CHOOSE y \in S : TRUE IN <<x>> \o SetToSeq(S \ {x})

Jaccard(a, b) == <<Cardinality(a \cap b), Cardinality(a \cup b)>>

SentimentAgreement(results) ==
    LET labels == Flatten(Sentiments(results))
    IN <<Len(labels) - Cardinality(Range(labels)) + 1, Len(labels)>>

ThemeAgreement(results) ==
    LET themeSets == SelectSeq([i \in 1..Len(results) |-> Range(ThemesOf(results[i]))],
                               LAMBDA t : t # {})
        m == Len(themeSets)
        pairs == SetToSeq({p \in (1..m) \X (1..m) : p[1] < p[2]})
        themeOverlap == FracSum([k \in 1..Len(pairs) |->
                                   Jaccard(themeSets[pairs[k][1]], themeSets[pairs[k][2]])])
    IN <<themeOverlap[1] * 2, themeOverlap[2] * m * (m - 1)>>

calculateAgreement(results) ==
    LET bySentiment == Len(Flatten(Sentiments(results))) > 1
        byThemes == Len(SelectSeq([i \in 1..Len(results) |-> Range(ThemesOf(results[i]))],
                                  LAMBDA t : t # {})) > 1
        agreementScore ==
            FracAdd(IF bySentiment THEN SentimentAgreement(results) ELSE <<0, 1>>,
                    IF byThemes THEN ThemeAgreement(results) ELSE <<0, 1>>)
        comparisons == (IF bySentiment THEN 1 ELSE 0) + (IF byThemes THEN 1 ELSE 0)
    IN IF Len(results) < 2 THEN <<1, 1>>
       ELSE IF comparisons > 0 THEN FracDivInt(agreementScore, comparisons)
       ELSE <<1, 1>>

\* ---------------------------------------------------- calculateConfidenceScore
\* every satisfied check adds one to score and one to factors
calculateConfidenceScore(r) ==
    LET score == (IF r.ai /\ r.summary THEN 1 ELSE 0)
               + (IF Len(KeyPointsOf(r)) > 0 THEN 1 ELSE 0)
               + (IF Len(ThemesOf(r)) > 0 THEN 1 ELSE 0)
               + (IF Len(r.recs) > 0 THEN 1 ELSE 0)
               + (IF r.sections THEN 1 ELSE 0)
               + (IF r.status = "completed" THEN 1 ELSE 0)
               + (IF ~r.error THEN 1 ELSE 0)
        factors == score
    IN IF factors > 0 THEN <<score, factors>> ELSE <<0, 1>>

\* the forEach of 'highest-confidence': [index, highestScore] after the first n results
RECURSIVE HighestConfidence(_, _, _)
HighestConfidence(results, weights, n) ==
    IF n = 0 THEN [index |-> 1, score |-> <<0, 1>>]
    ELSE LET highest == HighestConfidence(results, weights, n - 1)
             c == calculateConfidenceScore(results[n])
             score == <<c[1] * weights[n], c[2]>>
         IN IF FracLt(highest.score, score) THEN [index |-> n, score |-> score] ELSE highest

\* ------------------------------------------------------------ resolveConflicts
resolveConflicts(results, weights, method) ==
    CASE method = "highest-confidence" ->
           [result |-> results[HighestConfidence(results, weights, Len(results)).index],
            results |-> results]
      [] method = "weighted-merge" -> weightedAverageConsensus(results, weights)
      [] OTHER -> expertSelectionConsensus(results, weights)

\* ============================================================ CacheManager
\* A cache key "analysis:<type>:<hash>" (generateKey): its type and the
\* characters of its hash.
Key(type, hash) == [type |-> type, hash |-> hash]

Keys ==
    {Key("content", <<1, 1, 1, 1, 1, 1, 1>>),
     Key("content", <<1, 1, 1, 1, 1, 1, 2>>),
     Key("seo", <<0, 0, 0, 1, 1, 1, 4>>)}

NoKey == Key("", <<>>)

\* A cached value and the length JSON.stringify gives its entry.
Value(id, size) == [id |-> id, size |-> size]

Values == {Value("v1", 1), Value("v2", 2), Value("v3", MaxSizeBytes + 1)}

Null == Value("null", 0)

\* sizeCalculation: (entry) => JSON.stringify(entry).length
sizeCalculation(value) == value.size

\* the options handed to new LRUCache (maxSize 0: no size limit)
LruOptions_noMaxSize == [max |-> MaxEntryCount, maxSize |-> 0]

LruOptions == [max |-> MaxEntryCount, maxSize |-> MaxSizeBytes]

\* ---- the LRU store (lru-cache): entries in recency order, with the size
\* and the ttl start the store keeps for each
HasKey(store, k) == \E i \in 1..Len(store) : store[i].key = k
EntryOf(store, k) == store[CHOOSE i \in 1..Len(store) : store[i].key = k]
Without(store, k) == SelectSeq(store, LAMBDA e : e.key # k)
TotalSize(store) == SumSeq([i \in 1..Len(store) |-> store[i].size])
IsStale(e, t) == t - e.start > Ttl

\* evict from the least recently used end until at most room is used
RECURSIVE EvictUntil(_, _)
EvictUntil(store, room) ==
    IF TotalSize(store) > room THEN EvictUntil(Tail(store), room) ELSE store

\* cache.set(key, entry) at time t of the entry set() built at time created;
\* disposed: the number of dispose calls it makes
LruSet(store, k, v, opts, t, created) ==
    LET size == sizeCalculation(v)
        entry == [key |-> k, value |-> v, hits |-> 0, start |-> t, size |-> size,
                  timestamp |-> created]
    IN IF opts.maxSize > 0 /\ size > opts.maxSize
       THEN [store |-> Without(store, k),
             disposed |-> IF HasKey(store, k) THEN 1 ELSE 0]
       ELSE LET kept == IF HasKey(store, k) THEN Without(store, k)
                        ELSE IF Len(store) = opts.max THEN Tail(store)
                        ELSE store
                fit == IF opts.maxSize > 0
                       THEN EvictUntil(kept, opts.maxSize - size) ELSE kept
            IN [store |-> Append(fit, entry), disposed |-> Len(store) - Len(fit)]

\* a read that leaves the recency order alone (cache.peek)
LruGet_peek(store, k, t) ==
    IF ~HasKey(store, k) THEN [found |-> FALSE, store |-> store, disposed |-> 0]
    ELSE IF IsStale(EntryOf(store, k), t)
    THEN [found |-> FALSE, store |-> Without(store, k), disposed |-> 1]
    ELSE [found |-> TRUE, store |-> store, disposed |-> 0]

\* cache.get(key) with updateAgeOnGet: a stale entry is deleted and missed, a
\* live one becomes the most recently used and its age restarts
LruGet(store, k, t) ==
    IF ~HasKey(store, k) THEN [found |-> FALSE, store |-> store, disposed |-> 0]
    ELSE IF IsStale(EntryOf(store, k), t)
    THEN [found |-> FALSE, store |-> Without(store, k), disposed |-> 1]
    ELSE [found |-> TRUE,
          store |-> Append(Without(store, k), [EntryOf(store, k) EXCEPT !.start = t]),
          disposed |-> 0]

\* cache.keys(): most recently used first, stale entries skipped
LruKeys(store, t) ==
    LET live == SelectSeq(store, LAMBDA e : ~IsStale(e, t))
    IN [i \in 1..Len(live) |-> live[Len(live) + 1 - i].key]

\* dispose: () => { this.stats.evictions++ }
Disposed(st, n) == [st EXCEPT !.evictions = @ + n]

\* an entry counts as present only once it has been read before
getExact_needsHits(store, st, k, t) ==
    LET g == LruGet(store, k, t)
    IN IF g.found /\ g.store[Len(g.store)].hits > 0
       THEN [found |-> TRUE, value |-> g.store[Len(g.store)].value,
             store |-> [g.store EXCEPT ![Len(g.store)].hits = @ + 1],
             stats |-> [Disposed(st, g.disposed) EXCEPT !.hits = @ + 1]]
       ELSE [found |-> FALSE, value |-> Null,
             store |-> IF g.found
                       THEN [g.store EXCEPT ![Len(g.store)].hits = @ + 1]
                       ELSE g.store,
             stats |-> [Disposed(st, g.disposed) EXCEPT !.misses = @ + 1]]

\* getExact(key)
getExact(store, st, k, t) ==
    LET g == LruGet(store, k, t)
    IN IF g.found
       THEN [found |-> TRUE, value |-> g.store[Len(g.store)].value,
             store |-> [g.store EXCEPT ![Len(g.store)].hits = @ + 1],
             stats |-> [Disposed(st, g.disposed) EXCEPT !.hits = @ + 1]]
       ELSE [found |-> FALSE, value |-> Null, store |-> g.store,
             stats |-> [Disposed(st, g.disposed) EXCEPT !.misses = @ + 1]]

\* cache.get(otherKey) of a matched entry, counted as a hit
HitOn(x, k, t) ==
    LET g == LruGet(x.store, k, t)
    IN IF g.found
       THEN [found |-> TRUE, value |-> g.store[Len(g.store)].value,
             store |-> [g.store EXCEPT ![Len(g.store)].hits = @ + 1],
             stats |-> [Disposed(x.stats, g.disposed) EXCEPT !.hits = @ + 1]]
       ELSE [found |-> FALSE, value |-> Null, store |-> g.store,
             stats |-> [Disposed(x.stats, g.disposed) EXCEPT !.misses = @ + 1]]

\* getHashSimilarity: length of the common prefix over the shorter length
RECURSIVE CommonPrefix(_, _)
CommonPrefix(h1, h2) ==
    IF h1 = <<>> \/ h2 = <<>> \/ Head(h1) # Head(h2) THEN 0
    ELSE 1 + CommonPrefix(Tail(h1), Tail(h2))

getHashSimilarity(h1, h2) == <<CommonPrefix(h1, h2), Min2(Len(h1), Len(h2))>>

ReachesThreshold(sim) ==
    sim[1] * SimilarityThresholdDen >= SimilarityThresholdNum * sim[2]

\* getFuzzy(key): the first live key, most recently used first, of the same
\* type whose hash is similar enough
getFuzzy(store, st, k, t) ==
    LET x == getExact(store, st, k, t)
        similar == SelectSeq(LruKeys(x.store, t),
                       LAMBDA c : /\ c.type = k.type
                                  /\ ReachesThreshold(getHashSimilarity(k.hash, c.hash)))
    IN IF x.found THEN x
       ELSE IF similar # <<>> THEN HitOn(x, similar[1], t)
       ELSE [x EXCEPT !.stats.misses = @ + 1]

\* generateEmbedding: one component per character of the key text
TypeCode(type) == CASE type = "content" -> 3 [] type = "seo" -> 9 [] OTHER -> 1

generateEmbedding(k) == <<TypeCode(k.type)>> \o k.hash

Dot(a, b) == SumSeq([i \in 1..Len(a) |-> a[i] * b[i]])

\* cosineSimilarity of the normalised vectors, squared (components are >= 0)
cosineSimilarity(a, b) ==
    IF Len(a) # Len(b) THEN <<0, 1>>
    ELSE <<Dot(a, b) * Dot(a, b), Dot(a, a) * Dot(b, b)>>

ReachesThresholdSquared(sim) ==
    sim[1] * SimilarityThresholdDen * SimilarityThresholdDen
        >= SimilarityThresholdNum * SimilarityThresholdNum * sim[2]

\* the scan of this.embeddings: [key, similarity] after the first n vectors
RECURSIVE BestMatch(_, _, _)
BestMatch(embs, q, n) ==
    IF n = 0 THEN [key |-> NoKey, similarity |-> <<0, 1>>]
    ELSE LET best == BestMatch(embs, q, n - 1)
             similarity == cosineSimilarity(q, embs[n].vector)
         IN IF FracLt(best.similarity, similarity) /\ ReachesThresholdSquared(similarity)
            THEN [key |-> embs[n].key, similarity |-> similarity]
            ELSE best

\* this.embeddings.set(key, vector): a Map keeps a key's first position
EmbeddingsSet(embs, k, vector) ==
    IF \E i \in 1..Len(embs) : embs[i].key = k
    THEN [i \in 1..Len(embs) |->
            IF embs[i].key = k THEN [key |-> k, vector |-> vector] ELSE embs[i]]
    ELSE Append(embs, [key |-> k, vector |-> vector])

Call(op, k, v) == [op |-> op, key |-> k, value |-> v, at |-> now]

Completed(c) ==
    /\ last' = c
    /\ prev' = last

Started ==
    /\ steps < MaxSteps
    /\ steps' = steps + 1

\* ---- set(key, value) under exact and fuzzy
CacheSet(k, v) ==
    /\ strategy # "semantic"
    /\ Started
    /\ LET r == LruSet(cache, k, v, LruOptions, now, now)
       IN /\ cache' = r.store
          /\ stats' = Disposed(stats, r.disposed)
    /\ Completed(Call("set", k, v))
    /\ UNCHANGED <<strategy, embeddings, now, pending, consensusVars, engineVars, builderVars>>

\* ---- set(key, value) under semantic, up to await generateEmbedding
SemanticSetBegin(k, v) ==
    /\ strategy = "semantic"
    /\ Started
    /\ Cardinality(pending) < MaxPending
    /\ pending' = pending \cup {[op |-> "set", key |-> k, value |-> v, at |-> now]}
    /\ UNCHANGED <<strategy, cache, embeddings, stats, now, last, prev, consensusVars, engineVars, builderVars>>

\* ---- ... and after it
SemanticSetEnd(p) ==
    /\ p \in pending
    /\ p.op = "set"
    /\ pending' = pending \ {p}
    /\ embeddings' = EmbeddingsSet(embeddings, p.key, generateEmbedding(p.key))
    /\ LET r == LruSet(cache, p.key, p.value, LruOptions, now, p.at)
       IN /\ cache' = r.store
          /\ stats' = Disposed(stats, r.disposed)
    /\ Completed(Call("set", p.key, p.value))
    /\ UNCHANGED <<strategy, now, steps, consensusVars, engineVars, builderVars>>

\* ---- get(key) under exact and fuzzy
CacheGet(k) ==
    /\ strategy # "semantic"
    /\ Started
    /\ LET counted == [stats EXCEPT !.total = @ + 1]
           x == IF strategy = "exact" THEN getExact(cache, counted, k, now)
                ELSE IF strategy = "fuzzy" THEN getFuzzy(cache, counted, k, now)
                ELSE [found |-> FALSE, value |-> Null, store |-> cache, stats |-> counted]
       IN /\ cache' = x.store
          /\ stats' = x.stats
          /\ Completed(Call("get", k, x.value))
    /\ UNCHANGED <<strategy, embeddings, now, pending, consensusVars, engineVars, builderVars>>

\* ---- get(key) under semantic: an exact hit returns, a miss suspends at
\* await generateEmbedding
SemanticGetBegin(k) ==
    /\ strategy = "semantic"
    /\ Started
    /\ LET x == getExact(cache, [stats EXCEPT !.total = @ + 1], k, now)
       IN /\ cache' = x.store
          /\ stats' = x.stats
          /\ IF x.found
             THEN /\ Completed(Call("get", k, x.value))
                  /\ UNCHANGED pending
             ELSE /\ Cardinality(pending) < MaxPending
                  /\ pending' = pending \cup {[op |-> "get", key |-> k, value |-> Null, at |-> now]}
                  /\ UNCHANGED <<last, prev>>
    /\ UNCHANGED <<strategy, embeddings, now, consensusVars, engineVars, builderVars>>

\* ---- ... and after it: the best match of the scan is looked up
SemanticGetEnd(p) ==
    /\ p \in pending
    /\ p.op = "get"
    /\ pending' = pending \ {p}
    /\ LET best == BestMatch(embeddings, generateEmbedding(p.key), Len(embeddings))
           x == [found |-> FALSE, value |-> Null, store |-> cache, stats |-> stats]
           y == IF best.key # NoKey THEN HitOn(x, best.key, now)
                ELSE [x EXCEPT !.stats.misses = @ + 1]
       IN /\ cache' = y.store
          /\ stats' = y.stats
          /\ Completed(Call("get", p.key, y.value))
    /\ UNCHANGED <<strategy, embeddings, now, steps, consensusVars, engineVars, builderVars>>

\* ---- invalidate(pattern): pattern is a type name; NoKey.type is "no pattern"
Invalidate(pattern) ==
    /\ Started
    /\ IF pattern = NoKey.type
       THEN /\ cache' = <<>>
            /\ embeddings' = <<>>
            /\ stats' = Disposed(stats, Len(cache))
       ELSE LET hit == {k \in Range(LruKeys(cache, now)) : k.type = pattern}
            IN /\ cache' = SelectSeq(cache, LAMBDA e : e.key \notin hit)
               /\ embeddings' = SelectSeq(embeddings, LAMBDA e : e.key \notin hit)
               /\ stats' = Disposed(stats, Cardinality(hit))
    /\ Completed(Call("invalidate", NoKey, Null))
    /\ UNCHANGED <<strategy, now, pending, consensusVars, engineVars, builderVars>>

\* ---- time passes
Tick ==
    /\ now < MaxTime
    /\ now' = now + 1
    /\ UNCHANGED <<strategy, cache, embeddings, stats, pending, last, prev, steps,
                   consensusVars, engineVars, builderVars>>

NoStats == [hits |-> 0, misses |-> 0, evictions |-> 0, errors |-> 0, total |-> 0]

CacheInit(strategies) ==
    /\ strategy \in strategies
    /\ cache = <<>>
    /\ embeddings = <<>>
    /\ stats = NoStats
    /\ now = 0
    /\ pending = {}
    /\ last = [op |-> "none", key |-> NoKey, value |-> Null, at |-> 0]
    /\ prev = [op |-> "none", key |-> NoKey, value |-> Null, at |-> 0]
    /\ steps = 0

\* ------------------------------------------------------------ generateKey
\* JSON values of a request: a string is its sequence of character codes, a
\* list its elements, an object its [name, value] pairs in insertion order
\* (property names are numbered in code-unit order).
Str(s) == [t |-> "string", s |-> s, items |-> <<>>]
List(items) == [t |-> "array", s |-> <<>>, items |-> items]
Obj(pairs) == [t |-> "object", s |-> <<>>, items |-> pairs]

Space == 32
Comma == 44

\* String.prototype.trim
RECURSIVE TrimStart(_)
TrimStart(s) == IF s # <<>> /\ Head(s) = Space THEN TrimStart(Tail(s)) ELSE s

RECURSIVE TrimEnd(_)
TrimEnd(s) ==
    IF s # <<>> /\ s[Len(s)] = Space THEN TrimEnd(SubSeq(s, 1, Len(s) - 1)) ELSE s

Trim(s) == TrimEnd(TrimStart(s))

\* "[object Object]"
ObjectString == <<91, 111, 98, 106, 101, 99, 116, 32, 79, 98, 106, 101, 99, 116, 93>>

\* String(value), the sort key of Array.prototype.sort()
RECURSIVE StringOf(_)
StringOf(v) ==
    IF v.t = "string" THEN v.s
    ELSE IF v.t = "object" THEN ObjectString
    ELSE IF v.items = <<>> THEN <<>>
    ELSE IF Len(v.items) = 1 THEN StringOf(v.items[1])
    ELSE StringOf(v.items[1]) \o <<Comma>> \o StringOf(List(Tail(v.items)))

\* a < b by UTF-16 code units
RECURSIVE StringLt(_, _)
StringLt(a, b) ==
    IF b = <<>> THEN FALSE
    ELSE IF a = <<>> THEN TRUE
    ELSE IF Head(a) # Head(b) THEN Head(a) < Head(b)
    ELSE StringLt(Tail(a), Tail(b))

\* [...value].sort(): stable, by String(element)
RECURSIVE InsertByString(_, _)
InsertByString(sorted, v) ==
    IF sorted = <<>> THEN <<v>>
    ELSE IF StringLt(StringOf(v), StringOf(Head(sorted))) THEN <<v>> \o sorted
    ELSE <<Head(sorted)>> \o InsertByString(Tail(sorted), v)

RECURSIVE SortByString(_)
SortByString(items) ==
    IF items = <<>> THEN <<>>
    ELSE InsertByString(SortByString(SubSeq(items, 1, Len(items) - 1)), items[Len(items)])

\* Object.keys(inputs).sort(): the pairs in the order of their names
RECURSIVE InsertByName(_, _)
InsertByName(sorted, pair) ==
    IF sorted = <<>> THEN <<pair>>
    ELSE IF pair[1] < Head(sorted)[1] THEN <<pair>> \o sorted
    ELSE <<Head(sorted)>> \o InsertByName(Tail(sorted), pair)

RECURSIVE SortByName(_)
SortByName(pairs) ==
    IF pairs = <<>> THEN <<>>
    ELSE InsertByName(SortByName(SubSeq(pairs, 1, Len(pairs) - 1)), pairs[Len(pairs)])

\* normalizeInputs(inputs): names sorted; a string value trimmed, an array
\* value sorted (its elements as they are), an object value normalised
RECURSIVE normalizeInputs(_)
normalizeInputs(inputs) ==
    LET sortedPairs == SortByName(inputs.items)
        normalized(value) ==
            IF value.t = "string" THEN Str(Trim(value.s))
            ELSE IF value.t = "array" THEN List(SortByString(value.items))
            ELSE normalizeInputs(value)
    IN Obj([i \in 1..Len(sortedPairs) |->
              <<sortedPairs[i][1], normalized(sortedPairs[i][2])>>])

\* the name of the option that is left out of the key
CustomPrompt == 9

\* normalizeOptions(options)
normalizeOptions(options) ==
    normalizeInputs(Obj(SelectSeq(options.items, LAMBDA pair : pair[1] # CustomPrompt)))

\* generateKey(request): the sha256 digest of the serialised key data is
\* taken to be collision free, so the key is the key data
generateKey(req) ==
    [type |-> req.type,
     inputs |-> normalizeInputs(req.inputs),
     options |-> normalizeOptions(req.options)]

Request(type, inputs, options) == [type |-> type, inputs |-> inputs, options |-> options]

\* ---- requests that differ only in what the key should not depend on
RECURSIVE ReorderKeys(_)
ReorderKeys(v) ==
    IF v.t = "string" THEN v
    ELSE IF v.t = "array"
    THEN List([i \in 1..Len(v.items) |-> ReorderKeys(v.items[i])])
    ELSE Obj([i \in 1..Len(v.items) |->
                <<v.items[Len(v.items) + 1 - i][1],
                  ReorderKeys(v.items[Len(v.items) + 1 - i][2])>>])

RECURSIVE ReorderLists(_)
ReorderLists(v) ==
    IF v.t = "string" THEN v
    ELSE IF v.t = "array"
    THEN List([i \in 1..Len(v.items) |-> ReorderLists(v.items[Len(v.items) + 1 - i])])
    ELSE Obj([i \in 1..Len(v.items) |-> <<v.items[i][1], ReorderLists(v.items[i][2])>>])

RECURSIVE PadStrings(_)
PadStrings(v) ==
    IF v.t = "string" THEN Str(<<Space>> \o v.s \o <<Space>>)
    ELSE IF v.t = "array"
    THEN List([i \in 1..Len(v.items) |-> PadStrings(v.items[i])])
    ELSE Obj([i \in 1..Len(v.items) |-> <<v.items[i][1], PadStrings(v.items[i][2])>>])

Variant(how, v) ==
    CASE how = "keys" -> ReorderKeys(v)
      [] how = "lists" -> ReorderLists(v)
      [] how = "strings" -> PadStrings(v)
      [] OTHER -> v

Variations == {"same", "keys", "lists", "strings"}

\* property names: text, tags, meta, depth
Text == 1
Tags == 2
Meta == 3
Depth == 4

\* strings "a", "b", "c"
Sa == Str(<<97>>)
Sb == Str(<<98>>)
Sc == Str(<<99>>)

SampleInputs ==
    {Obj(<<<<Text, Sa>>, <<Tags, List(<<Sb, Sc>>)>>>>),
     Obj(<<<<Text, Sa>>, <<Meta, Obj(<<<<Text, Sb>>, <<Depth, Sc>>>>)>>>>),
     Obj(<<<<Meta, Obj(<<<<Tags, List(<<Sa, Sb>>)>>, <<Text, Sc>>>>)>>, <<Text, Sa>>>>),
     Obj(<<<<Tags, List(<<Obj(<<<<Text, Sa>>, <<Depth, Sb>>>>), Obj(<<<<Text, Sc>>>>)>>)>>>>),
     Obj(<<<<Text, Sb>>>>)}

SampleOptions ==
    {Obj(<<>>),
     Obj(<<<<Depth, Sa>>, <<CustomPrompt, Sb>>>>)}

SampleRequests ==
    {Request("content", inputs, options) : inputs \in SampleInputs, options \in SampleOptions}

\* ---- generateKey(requests[i])
GenerateKey(i) ==
    /\ i \in 1..Len(requests)
    /\ fingerprint[i] = <<>>
    /\ fingerprint' = [fingerprint EXCEPT ![i] = <<generateKey(requests[i])>>]
    /\ UNCHANGED <<requests, analyses, consensusVars, cacheVars, builderVars>>

\* two requests, the second a variation of the first
KeyInit ==
    /\ \E r \in SampleRequests : \E how, also \in Variations :
         requests = <<r, Request(r.type, Variant(how, r.inputs), Variant(also, r.options))>>
    /\ fingerprint = <<<<>>, <<>>>>
    /\ analyses = <<>>

\* no request at hand
EngineIdle ==
    /\ requests = <<>>
    /\ fingerprint = <<>>
    /\ analyses = <<>>

\* ---------------------------------------------------------- AnalysisEngine
\* analyze(request) of an engine over the cache; a request is named by its
\* cache key, the provider's output by the value that is cached.
Analyses == 1..Len(analyses)

NotStarted ==
    [phase |-> "idle", key |-> NoKey, value |-> Null, hit |-> FALSE, calls |-> 0,
     error |-> "none", at |-> 0]

\* the lookup finds nothing whatever the cache holds
CachedResultFound_never(x) == FALSE

\* if (cachedResult)
CachedResultFound(x) == x.found

\* this.cacheManager.get(cacheKey) as far as it runs without suspending
Lookup(k) ==
    LET counted == [stats EXCEPT !.total = @ + 1]
    IN IF strategy = "fuzzy" THEN getFuzzy(cache, counted, k, now)
       ELSE IF strategy \in {"exact", "semantic"} THEN getExact(cache, counted, k, now)
       ELSE [found |-> FALSE, value |-> Null, store |-> cache, stats |-> counted]

\* the call returns the cached result
ReturnsCached(a, k, x) ==
    [analyses EXCEPT ![a] = [@ EXCEPT !.phase = "completed", !.key = k,
                                      !.value = x.value, !.hit = TRUE]]

\* performAnalysis starts: the one call of aiEngine.generateText
StartsProcessing(a, k) ==
    [analyses EXCEPT ![a] = [@ EXCEPT !.phase = "processing", !.key = k,
                                      !.calls = @ + 1]]

\* ---- analyze(request): generateKey, then the cache lookup
Analyze(a, k) ==
    /\ analyses[a].phase = "idle"
    /\ LET x == Lookup(k)
       IN /\ cache' = x.store
          /\ stats' = x.stats
          /\ analyses' =
               IF CachedResultFound(x) THEN ReturnsCached(a, k, x)
               ELSE IF strategy = "semantic"
               THEN [analyses EXCEPT ![a] = [@ EXCEPT !.phase = "lookup", !.key = k]]
               ELSE StartsProcessing(a, k)
    /\ UNCHANGED <<strategy, embeddings, now, pending, last, prev, steps,
                   requests, fingerprint, consensusVars, builderVars>>

\* ---- analyze(request) where generateKey throws (JSON.stringify of the key
\* data fails): the catch of analyze marks the result failed and rethrows
AnalyzeKeyFails(a) ==
    /\ analyses[a].phase = "idle"
    /\ analyses' = [analyses EXCEPT ![a] = [@ EXCEPT !.phase = "failed",
                                                     !.error = "fingerprint"]]
    /\ UNCHANGED <<cacheVars, requests, fingerprint, consensusVars, builderVars>>

\* ---- getSemantic resumes after await generateEmbedding
AnalyzeScan(a) ==
    /\ analyses[a].phase = "lookup"
    /\ LET k == analyses[a].key
           best == BestMatch(embeddings, generateEmbedding(k), Len(embeddings))
           x == [found |-> FALSE, value |-> Null, store |-> cache, stats |-> stats]
           y == IF best.key # NoKey THEN HitOn(x, best.key, now)
                ELSE [x EXCEPT !.stats.misses = @ + 1]
       IN /\ cache' = y.store
          /\ stats' = y.stats
          /\ analyses' = IF CachedResultFound(y) THEN ReturnsCached(a, k, y)
                         ELSE StartsProcessing(a, k)
    /\ UNCHANGED <<strategy, embeddings, now, pending, last, prev, steps,
                   requests, fingerprint, consensusVars, builderVars>>

\* ---- performAnalysis returns v; cacheManager.set(cacheKey, v) runs, up to
\* await generateEmbedding under semantic
ProviderAnswers(a, v) ==
    /\ analyses[a].phase = "processing"
    /\ IF strategy = "semantic"
       THEN /\ analyses' = [analyses EXCEPT ![a] = [@ EXCEPT !.phase = "storing",
                                                             !.value = v, !.at = now]]
            /\ UNCHANGED <<cache, stats>>
       ELSE /\ LET r == LruSet(cache, analyses[a].key, v, LruOptions, now, now)
               IN /\ cache' = r.store
                  /\ stats' = Disposed(stats, r.disposed)
            /\ analyses' = [analyses EXCEPT ![a] = [@ EXCEPT !.phase = "completed",
                                                             !.value = v, !.at = now]]
    /\ UNCHANGED <<strategy, embeddings, now, pending, last, prev, steps,
                   requests, fingerprint, consensusVars, builderVars>>

\* ---- performAnalysis throws
ProviderThrows(a) ==
    /\ analyses[a].phase = "processing"
    /\ analyses' = [analyses EXCEPT ![a] = [@ EXCEPT !.phase = "failed",
                                                     !.error = "provider"]]
    /\ UNCHANGED <<cacheVars, requests, fingerprint, consensusVars, builderVars>>

\* ---- set resumes after await generateEmbedding and analyze returns
AnalyzeStore(a) ==
    /\ analyses[a].phase = "storing"
    /\ embeddings' = EmbeddingsSet(embeddings, analyses[a].key,
                                   generateEmbedding(analyses[a].key))
    /\ LET r == LruSet(cache, analyses[a].key, analyses[a].value, LruOptions, now,
                       analyses[a].at)
       IN /\ cache' = r.store
          /\ stats' = Disposed(stats, r.disposed)
    /\ analyses' = [analyses EXCEPT ![a] = [@ EXCEPT !.phase = "completed"]]
    /\ UNCHANGED <<strategy, now, pending, last, prev, steps,
                   requests, fingerprint, consensusVars, builderVars>>

EngineInit ==
    /\ requests = <<>>
    /\ fingerprint = <<>>
    /\ analyses = [a \in 1..MaxAnalyses |-> NotStarted]

\* ===================================================== CollaborativeAnalyzer
Methods == {"weighted-average", "voting", "expert-selection"}
Resolutions == {"expert-review", "highest-confidence", "weighted-merge"}

\* requireAgreement: <<0, 1>> is "not set" (undefined and 0 are both falsy)
Unset == <<0, 1>>
IsSet(req) == req[1] # 0

\* What a provider engine may answer for a request of each content class.
\* An engine's result always carries aiAnalysis with a sentiment label and
\* (possibly empty) keyPoints and themes (analysis-engine.ts performAnalysis).
ProviderOutputs(req) ==
    CASE req = "review" ->
           {MkResult("positive", <<"k1">>, <<"t1">>),
            MkResult("negative", <<"k2">>, <<"t2">>),
            MkResult("positive", <<"k1", "k1">>, <<"t1", "t2">>),
            [MkResult("negative", <<>>, <<>>) EXCEPT !.recs = <<"r1">>]}
      [] req = "opinion" ->
           {MkResult("positive", <<"k1">>, <<"t1">>),
            MkResult("negative", <<"k2">>, <<"t1">>),
            MkResult("neutral", <<>>, <<>>)}
      [] req = "digest" ->
           {performAnalysis([sentiment |-> None, keyPoints |-> <<>>, themes |-> <<>>,
                             recommendations |-> <<"r1", "r2", "r3", "r4", "r5", "r6",
                                                   "r7", "r8", "r9", "r10", "r11">>]),
            performAnalysis([sentiment |-> "positive",
                             keyPoints |-> <<"k1", "k2", "k3", "k4">>,
                             themes |-> <<"t1", "t2", "t3">>,
                             recommendations |-> <<"r11", "r12">>]),
            performAnalysis([sentiment |-> "negative",
                             keyPoints |-> <<"k4", "k5", "k6", "k7", "k4">>,
                             themes |-> <<"t3", "t4", "t5", "t6">>,
                             recommendations |-> <<>>])}
      [] OTHER -> {}

\* a sequential loop: engine i is called once the earlier calls have settled
FanOutReady_sequential(i) == \A j \in 1..(i - 1) : calls[j] \in {"ok", "failed"}

\* ---- analyze(): the map callback of engine i calls engine.analyze(request)
\* without waiting on the calls made before it
FanOutReady(i) == TRUE

Invoke(i) ==
    /\ \/ i = 1 /\ pc = "idle"
       \/ i > 1 /\ pc = "fanout"
    /\ calls[i] = "notcalled"
    /\ \A j \in 1..(i - 1) : calls[j] # "notcalled"
    /\ FanOutReady(i)
    /\ calls' = [calls EXCEPT ![i] = "inflight"]
    /\ pc' = IF i = MaxProviders THEN "awaiting" ELSE "fanout"
    /\ UNCHANGED <<engines, consensus, request, returned, outcome, cacheVars, engineVars, builderVars>>

\* engine.analyze resolves: { result, weight, success: true }
ProviderReturns(i, r) ==
    /\ calls[i] = "inflight"
    /\ calls' = [calls EXCEPT ![i] = "ok"]
    /\ returned' = [returned EXCEPT ![i] = [r EXCEPT !.id = i]]
    /\ UNCHANGED <<engines, consensus, request, pc, outcome, cacheVars, engineVars, builderVars>>

\* engine.analyze rejects; the catch turns it into { result: null, success: false }
ProviderFails(i) ==
    /\ calls[i] = "inflight"
    /\ calls' = [calls EXCEPT ![i] = "failed"]
    /\ UNCHANGED <<engines, consensus, request, pc, returned, outcome, cacheVars, engineVars, builderVars>>

\* await Promise.all(providerPromises): no wrapped promise rejects, so the
\* await resumes when every engine's call has settled
FanInReady == \A i \in Providers : calls[i] \in {"ok", "failed"}

\* providerResponses.filter(r => r.success && r.result): indices, in order
Successful(cs) == SelectSeq([i \in Providers |-> i], LAMBDA i : cs[i] = "ok")

\* the throw guarded by a test for any failure
NoneSucceeded_anyFailed(ok) == Len(ok) < MaxProviders

\* successfulResponses.length === 0
NoneSucceeded(ok) == Len(ok) = 0

\* weights taken from all responses, failed ones included
WeightsOf_unfiltered(ok) == [k \in 1..Len(ok) |-> engines[k]]

\* successfulResponses.map(r => r.weight)
WeightsOf(ok) == [k \in 1..Len(ok) |-> engines[ok[k]]]

ApplyMethod(method, results, weights) ==
    CASE method = "weighted-average" -> weightedAverageConsensus(results, weights)
      [] method = "voting" -> votingConsensus(results)
      [] method = "expert-selection" -> expertSelectionConsensus(results, weights)
      [] OTHER -> [result |-> results[1], results |-> results]

\* the part of analyze() after the await, for the successful responses
Aggregate(cfg, providerResults, weights) ==
    LET first == ApplyMethod(cfg.method, providerResults, weights)
        agreementScore == calculateAgreement(first.results)
        low == IsSet(cfg.requireAgreement) /\ FracLt(agreementScore, cfg.requireAgreement)
        final == IF low /\ cfg.conflictResolution # None
                 THEN resolveConflicts(first.results, weights, cfg.conflictResolution)
                 ELSE first
        consensusMetadata ==
            IF ~IsSet(cfg.requireAgreement) THEN [x \in {} |-> TRUE]
            ELSE IF low THEN [agreementScore |-> agreementScore, lowAgreement |-> TRUE]
            ELSE [agreementScore |-> agreementScore]
    IN [kind |-> "result",
        result |-> final.result,
        providerResults |-> final.results,
        consensusMetadata |-> consensusMetadata]

Combine ==
    /\ pc = "awaiting"
    /\ FanInReady
    /\ LET ok == Successful(calls)
           providerResults == [k \in 1..Len(ok) |-> returned[ok[k]]]
           weights == WeightsOf(ok)
       IN IF NoneSucceeded(ok)
          THEN /\ pc' = "error"
               /\ outcome' = [kind |-> "error",
                              message |-> "All providers failed to analyze content"]
          ELSE /\ pc' = "done"
               /\ outcome' = Aggregate(consensus, providerResults, weights)
    /\ UNCHANGED <<engines, consensus, request, calls, returned, cacheVars, engineVars, builderVars>>

NoResult == [MkResult(None, <<>>, <<>>) EXCEPT !.ai = FALSE]

ConsensusInit(reqs, weightSet, methods, agreements, resolutions) ==
    /\ request \in reqs
    /\ engines \in [Providers -> weightSet]
    /\ consensus \in [method : methods, requireAgreement : agreements,
                      conflictResolution : resolutions]
    /\ pc = "idle"
    /\ calls = [i \in Providers |-> "notcalled"]
    /\ returned = [i \in Providers |-> NoResult]
    /\ outcome = [kind |-> "none"]
    /\ invocations = <<>>
    /\ stream = [pc |-> "none"]
    /\ bulk = [pc |-> "none"]

Init ==
    /\ EngineIdle
    /\ ConsensusInit({"review"}, {2, 5}, Methods, {Unset, <<9, 10>>}, Resolutions \cup {None})
    /\ CacheInit({"exact"})

Next ==
    \/ \E i \in Providers : Invoke(i)
    \/ \E i \in Providers : \E r \in ProviderOutputs(request) : ProviderReturns(i, r)
    \/ \E i \in Providers : ProviderFails(i)
    \/ Combine

vars == <<consensusVars, cacheVars, engineVars, builderVars>>

Spec == Init /\ [][Next]_vars

\* weighted merge of sentiment labels, three distinct weights
InitWeighted ==
    /\ EngineIdle
    /\ ConsensusInit({"opinion"}, {2, 3, 5}, {"weighted-average"}, {Unset}, {None})
    /\ CacheInit({"exact"})

\* the cache on its own, under each strategy
InitCache ==
    /\ EngineIdle
    /\ ConsensusInit({"review"}, {5}, {"voting"}, {Unset}, {None})
    /\ CacheInit({"exact", "semantic", "fuzzy"})

NextCache ==
    \/ \E k \in Keys : \E v \in Values : CacheSet(k, v)
    \/ \E k \in Keys : \E v \in Values : SemanticSetBegin(k, v)
    \/ \E p \in pending : SemanticSetEnd(p)
    \/ \E k \in Keys : CacheGet(k)
    \/ \E k \in Keys : SemanticGetBegin(k)
    \/ \E p \in pending : SemanticGetEnd(p)
    \/ \E pattern \in {NoKey.type, "content"} : Invalidate(pattern)
    \/ Tick

SpecCache == InitCache /\ [][NextCache]_vars

\* generateKey on its own, for pairs of requests
InitKey ==
    /\ KeyInit
    /\ ConsensusInit({"review"}, {5}, {"voting"}, {Unset}, {None})
    /\ CacheInit({"exact"})

NextKey == \E i \in 1..2 : GenerateKey(i)

SpecKey == InitKey /\ [][NextKey]_vars

\* an engine with its cache, under each strategy
InitEngine ==
    /\ EngineInit
    /\ ConsensusInit({"review"}, {5}, {"voting"}, {Unset}, {None})
    /\ CacheInit({"exact", "semantic", "fuzzy"})

NextEngine ==
    \/ \E a \in Analyses : \E k \in Keys : Analyze(a, k)
    \/ \E a \in Analyses : AnalyzeKeyFails(a)
    \/ \E a \in Analyses : AnalyzeScan(a)
    \/ \E a \in Analyses : \E v \in Values : ProviderAnswers(a, v)
    \/ \E a \in Analyses : ProviderThrows(a)
    \/ \E a \in Analyses : AnalyzeStore(a)
    \/ Tick

SpecEngine == InitEngine /\ [][NextEngine]_vars

\* analyzers and caches built from configurations of any content
InitConfig ==
    /\ EngineIdle
    /\ ConsensusInit({"opinion"}, {5, 12}, {"voting", "majority"}, {<<9, 10>>},
                     {"expert-review", "coin-flip"})
    /\ CacheInit({"exact", "lru"})

NextConfig ==
    \/ Next
    \/ \E k \in {CHOOSE key \in Keys : TRUE} : \E v \in {Value("v1", 1)} : CacheSet(k, v)
    \/ \E k \in {CHOOSE key \in Keys : TRUE} : CacheGet(k)

SpecConfig == InitConfig /\ [][NextConfig]_vars

SpecWeighted == InitWeighted /\ [][Next]_vars

\* long answers, and answers without a sentiment
InitDigest ==
    /\ EngineIdle
    /\ ConsensusInit({"digest"}, {2, 3, 5}, {"weighted-average", "voting"}, {Unset}, {None})
    /\ CacheInit({"exact"})

SpecDigest == InitDigest /\ [][Next]_vars

\* the semantic cache over keys of which two are equally close to the third
TiedKeys ==
    {Key("content", <<1, 1, 1, 1, 1, 1, 1>>),
     Key("content", <<1, 1, 1, 1, 1, 1, 2>>),
     Key("content", <<1, 1, 1, 1, 1, 2, 1>>)}

InitTied ==
    /\ EngineIdle
    /\ ConsensusInit({"review"}, {5}, {"voting"}, {Unset}, {None})
    /\ CacheInit({"semantic"})

NextTied ==
    \/ \E k \in TiedKeys : \E v \in Values : SemanticSetBegin(k, v)
    \/ \E p \in pending : SemanticSetEnd(p)
    \/ \E k \in TiedKeys : SemanticGetBegin(k)
    \/ \E p \in pending : SemanticGetEnd(p)
    \/ \E pattern \in {NoKey.type, "content"} : Invalidate(pattern)
    \/ Tick

SpecTied == InitTied /\ [][NextTied]_vars

\* ------------------------------ analyze and analyzeWithMethod, overlapping
\* the method the analyzer was constructed with
Configured == "voting"

Invocations == 1..Len(invocations)

NotInvoked ==
    [kind |-> "none", method |-> None, originalMethod |-> None, phase |-> "idle",
     used |-> None]

NextToInvoke(c) ==
    /\ invocations[c].phase = "idle"
    /\ \A d \in 1..(c - 1) : invocations[d].phase # "idle"

\* analyze(request), up to await Promise.all(providerPromises)
InvokeAnalyze(c) ==
    /\ NextToInvoke(c)
    /\ invocations' = [invocations EXCEPT ![c] =
                          [@ EXCEPT !.kind = "analyze", !.phase = "awaiting"]]
    /\ UNCHANGED <<consensusVars, cacheVars, engineVars, stream, bulk>>

\* analyzeWithMethod(request, method), up to the same await inside analyze
InvokeAnalyzeWithMethod(c, method) ==
    /\ NextToInvoke(c)
    /\ invocations' = [invocations EXCEPT ![c] =
                          [@ EXCEPT !.kind = "analyzeWithMethod", !.method = method,
                                    !.originalMethod = consensus.method,
                                    !.phase = "awaiting"]]
    /\ consensus' = [consensus EXCEPT !.method = method]
    /\ UNCHANGED <<engines, request, pc, calls, returned, outcome, cacheVars, engineVars,
                   stream, bulk>>

\* analyze after the await, some provider having answered: the switch reads
\* this.consensus.method and the merged result is returned
AnalyzeResumes(c) ==
    /\ invocations[c].phase = "awaiting"
    /\ invocations' = [invocations EXCEPT ![c] =
                          [@ EXCEPT !.used = consensus.method,
                                    !.phase = IF invocations[c].kind = "analyze" THEN "done"
                                              ELSE "returning"]]
    /\ UNCHANGED <<consensusVars, cacheVars, engineVars, stream, bulk>>

\* analyze after the await, every provider having failed: it throws
AnalyzeThrows(c) ==
    /\ invocations[c].phase = "awaiting"
    /\ invocations' = [invocations EXCEPT ![c] =
                          [@ EXCEPT !.phase = IF invocations[c].kind = "analyze" THEN "failed"
                                              ELSE "throwing"]]
    /\ UNCHANGED <<consensusVars, cacheVars, engineVars, stream, bulk>>

\* finally { this.consensus.method = originalMethod }
Finally(c) ==
    /\ invocations[c].phase \in {"returning", "throwing"}
    /\ consensus' = [consensus EXCEPT !.method = invocations[c].originalMethod]
    /\ invocations' = [invocations EXCEPT ![c] =
                          [@ EXCEPT !.phase = IF invocations[c].phase = "returning" THEN "done"
                                              ELSE "failed"]]
    /\ UNCHANGED <<engines, request, pc, calls, returned, outcome, cacheVars, engineVars,
                   stream, bulk>>

\* an analyzer on which no call has been made
AnalyzerIdle ==
    /\ request = "review"
    /\ engines = [i \in Providers |-> 5]
    /\ consensus = [method |-> Configured, requireAgreement |-> Unset,
                    conflictResolution |-> None]
    /\ pc = "idle"
    /\ calls = [i \in Providers |-> "notcalled"]
    /\ returned = [i \in Providers |-> NoResult]
    /\ outcome = [kind |-> "none"]

InitMethod ==
    /\ EngineIdle
    /\ CacheInit({"exact"})
    /\ AnalyzerIdle
    /\ invocations = [c \in 1..MaxInvocations |-> NotInvoked]
    /\ stream = [pc |-> "none"]
    /\ bulk = [pc |-> "none"]

NextMethod ==
    \/ \E c \in Invocations : InvokeAnalyze(c)
    \/ \E c \in Invocations : \E method \in Methods : InvokeAnalyzeWithMethod(c, method)
    \/ \E c \in Invocations : AnalyzeResumes(c)
    \/ \E c \in Invocations : AnalyzeThrows(c)
    \/ \E c \in Invocations : Finally(c)

SpecMethod == InitMethod /\ [][NextMethod]_vars

\* ============================================================ StreamAnalyzer
\* The content is its length; a chunk is the pair <<from, to>> of the content
\* positions from..to-1 that String.prototype.substring returned.
DefaultChunkSize == 1000
DefaultOverlap == 200

ChunkSizes == 0..MaxChunkSize    \* 0: streaming.chunkSize not configured
Overlaps == 0..MaxOverlap
Contents == 0..MaxContent
\* iterations of the splitting loop followed by the model
MaxChunks == MaxContent + 1

\* a || b on numbers: 0 and undefined are falsy
OrDefault(a, b) == IF a = 0 THEN b ELSE a

Clamp(n, length) == IF n < 0 THEN 0 ELSE IF n > length THEN length ELSE n

\* content.substring(a, b): both indexes clamped to 0..length, swapped when
\* the first is the greater
Substring(length, a, b) ==
    LET from == Clamp(a, length)
        to == Clamp(b, length)
    IN  IF from > to THEN <<to, from>> ELSE <<from, to>>

StreamInit ==
    \E chunkSize \in ChunkSizes : \E overlap \in Overlaps :
        stream = [pc |-> "idle", chunkSize |-> chunkSize, overlap |-> overlap]

\* ---- analyzeStream(content), up to the first iteration of splitIntoChunks
AnalyzeStream(content) ==
    /\ stream.pc = "idle"
    /\ stream' = [pc |-> "split",
                  config |-> [chunkSize |-> stream.chunkSize, overlap |-> stream.overlap],
                  chunkSize |-> OrDefault(stream.chunkSize, DefaultChunkSize),
                  overlap |-> OrDefault(stream.overlap, DefaultOverlap),
                  content |-> content,
                  start |-> 0,
                  chunks |-> <<>>,
                  currentChunk |-> 0,
                  isComplete |-> FALSE]
    /\ UNCHANGED <<consensusVars, cacheVars, engineVars, invocations, bulk>>

\* ---- splitIntoChunks: one iteration of the while loop; the break returns
SplitIteration ==
    /\ stream.pc = "split"
    /\ stream.start < stream.content
    /\ Len(stream.chunks) < MaxChunks
    /\ LET length == stream.content
           end == IF stream.start + stream.chunkSize < length
                  THEN stream.start + stream.chunkSize ELSE length
           pushed == Append(stream.chunks, Substring(length, stream.start, end))
           start == end - stream.overlap
       IN  IF 2 * (length - start) < stream.chunkSize /\ start < length
           THEN stream' = [stream EXCEPT
                    !.chunks = [pushed EXCEPT ![Len(pushed)] =
                                   Substring(length, start - stream.overlap, length)],
                    !.start = start,
                    !.pc = "chunks"]
           ELSE stream' = [stream EXCEPT !.chunks = pushed, !.start = start]
    /\ UNCHANGED <<consensusVars, cacheVars, engineVars, invocations, bulk>>

\* ---- splitIntoChunks: the while condition fails, the chunks are returned
SplitReturns ==
    /\ stream.pc = "split"
    /\ ~(stream.start < stream.content)
    /\ stream' = [stream EXCEPT !.pc = "chunks"]
    /\ UNCHANGED <<consensusVars, cacheVars, engineVars, invocations, bulk>>

\* ---- analyzeStream: analyzeChunk returns (it catches the engine's errors)
\* and the update of this chunk is yielded
AnalyzeChunk ==
    /\ stream.pc = "chunks"
    /\ stream.currentChunk < Len(stream.chunks)
    /\ stream' = [stream EXCEPT !.currentChunk = @ + 1]
    /\ UNCHANGED <<consensusVars, cacheVars, engineVars, invocations, bulk>>

\* ---- analyzeStream: combineChunkResults returns, the final update is yielded
CombineReturns ==
    /\ stream.pc = "chunks"
    /\ stream.currentChunk = Len(stream.chunks)
    /\ stream' = [stream EXCEPT !.pc = "complete", !.isComplete = TRUE]
    /\ UNCHANGED <<consensusVars, cacheVars, engineVars, invocations, bulk>>

\* ---- analyzeStream: the engine's analysis in combineChunkResults throws
CombineThrows ==
    /\ stream.pc = "chunks"
    /\ stream.currentChunk = Len(stream.chunks)
    /\ stream' = [stream EXCEPT !.pc = "threw"]
    /\ UNCHANGED <<consensusVars, cacheVars, engineVars, invocations, bulk>>

InitStream ==
    /\ EngineIdle
    /\ CacheInit({"exact"})
    /\ AnalyzerIdle
    /\ invocations = <<>>
    /\ StreamInit
    /\ bulk = [pc |-> "none"]

NextStream ==
    \/ \E content \in Contents : AnalyzeStream(content)
    \/ SplitIteration
    \/ SplitReturns
    \/ AnalyzeChunk
    \/ CombineReturns
    \/ CombineThrows

\* every step of analyzeStream that can run is eventually run
SpecStream == InitStream /\ [][NextStream]_vars /\ WF_vars(NextStream)

\* ============================================================== BulkAnalyzer
\* The contents are 1..n in input order; an entry of results names the content
\* it is the analysis of.
DefaultBatchSize == 5

BatchSizes == 0..MaxBatchSize    \* 0: processing.batchSize not configured
ContentCounts == 0..MaxContents

\* contents.slice(i, i + batchSize), i counted from 0
Batch(i, batchSize, n) == {c \in 1..n : i < c /\ c <= i + batchSize}

\* the members of a batch in input order
RECURSIVE InOrder(_)
InOrder(S) ==
    IF S = {} THEN <<>>
    ELSE LET c == CHOOSE x \in S : \A y \in S : x <= y
         IN  <<c>> \o InOrder(S \ {c})

CurrentBatch == Batch(bulk.i, bulk.batchSize, bulk.contents)

BulkInit ==
    \E batchSize \in BatchSizes : \E retryFailed \in BOOLEAN :
        bulk = [pc |-> "idle", batchSize |-> batchSize, retryFailed |-> retryFailed]

\* ---- processContents(contents), up to the loop
ProcessContents(n) ==
    /\ bulk.pc = "idle"
    /\ bulk' = [pc |-> "loop",
                batchSize |-> OrDefault(bulk.batchSize, DefaultBatchSize),
                retryFailed |-> bulk.retryFailed,
                contents |-> n,
                i |-> 0,
                analyses |-> [c \in 1..n |-> [state |-> "notcalled", calls |-> 0]],
                results |-> <<>>]
    /\ UNCHANGED <<consensusVars, cacheVars, engineVars, invocations, stream>>

\* ---- processBatch: analyzeMultiple calls engine.analyze for every request
\* of the batch, then awaits Promise.all
ProcessBatch ==
    /\ bulk.pc = "loop"
    /\ bulk.i < bulk.contents
    /\ bulk' = [bulk EXCEPT
           !.pc = "batch",
           !.analyses = [c \in DOMAIN @ |->
                            IF c \in CurrentBatch
                            THEN [state |-> "inflight", calls |-> @[c].calls + 1]
                            ELSE @[c]]]
    /\ UNCHANGED <<consensusVars, cacheVars, engineVars, invocations, stream>>

\* ---- engine.analyze of content c resolves; its result has status completed
AnalysisResolves(c) ==
    /\ bulk.pc \in {"batch", "threw"}
    /\ c \in 1..bulk.contents
    /\ bulk.analyses[c].state = "inflight"
    /\ bulk' = [bulk EXCEPT !.analyses[c].state = "completed"]
    /\ UNCHANGED <<consensusVars, cacheVars, engineVars, invocations, stream>>

\* ---- engine.analyze of content c fails: its catch block rethrows
AnalysisRejects(c) ==
    /\ bulk.pc \in {"batch", "threw"}
    /\ c \in 1..bulk.contents
    /\ bulk.analyses[c].state = "inflight"
    /\ bulk' = [bulk EXCEPT !.analyses[c].state = "failed"]
    /\ UNCHANGED <<consensusVars, cacheVars, engineVars, invocations, stream>>

\* ---- Promise.all resolves with the batch's results; the retry loop runs over
\* them (retry: what retryAnalysis does for each entry it is called for) and
\* the batch's results are pushed
BatchResolves ==
    /\ bulk.pc = "batch"
    /\ \A c \in CurrentBatch : bulk.analyses[c].state = "completed"
    /\ LET batch == InOrder(CurrentBatch)
           batchResults == [j \in DOMAIN batch |->
                               [content |-> batch[j], status |-> "completed", retried |-> FALSE]]
           toRetry == IF bulk.retryFailed
                      THEN {j \in DOMAIN batch : batchResults[j].status = "failed"}
                      ELSE {}
       IN  \E retry \in [toRetry -> {"completed", "threw"}] :
               IF \E j \in toRetry : retry[j] = "threw"
               THEN bulk' = [bulk EXCEPT !.pc = "threw"]
               ELSE bulk' = [bulk EXCEPT
                        !.pc = "loop",
                        !.i = @ + bulk.batchSize,
                        !.analyses = [c \in DOMAIN @ |->
                            IF \E j \in toRetry : batch[j] = c
                            THEN [@[c] EXCEPT !.calls = @ + 1]
                            ELSE @[c]],
                        !.results = @ \o [j \in DOMAIN batch |->
                            IF j \in toRetry
                            THEN [content |-> batch[j], status |-> "completed", retried |-> TRUE]
                            ELSE batchResults[j]]]
    /\ UNCHANGED <<consensusVars, cacheVars, engineVars, invocations, stream>>

\* ---- Promise.all rejects as soon as one analysis of the batch has failed:
\* await this.processBatch throws and processContents rejects
BatchRejects ==
    /\ bulk.pc = "batch"
    /\ \E c \in CurrentBatch : bulk.analyses[c].state = "failed"
    /\ bulk' = [bulk EXCEPT !.pc = "threw"]
    /\ UNCHANGED <<consensusVars, cacheVars, engineVars, invocations, stream>>

\* ---- the loop ends; processContents returns { individual: results }
BulkReturns ==
    /\ bulk.pc = "loop"
    /\ ~(bulk.i < bulk.contents)
    /\ bulk' = [bulk EXCEPT !.pc = "returned"]
    /\ UNCHANGED <<consensusVars, cacheVars, engineVars, invocations, stream>>

InitBulk ==
    /\ EngineIdle
    /\ CacheInit({"exact"})
    /\ AnalyzerIdle
    /\ invocations = <<>>
    /\ stream = [pc |-> "none"]
    /\ BulkInit

NextBulk ==
    \/ \E n \in ContentCounts : ProcessContents(n)
    \/ ProcessBatch
    \/ \E c \in 1..MaxContents : AnalysisResolves(c)
    \/ \E c \in 1..MaxContents : AnalysisRejects(c)
    \/ BatchResolves
    \/ BatchRejects
    \/ BulkReturns

SpecBulk == InitBulk /\ [][NextBulk]_vars

\* ================================================================== claims
OkSet == {i \in Providers : calls[i] = "ok"}
FailedSet == {i \in Providers : calls[i] = "failed"}
Finished == pc \in {"done", "error"}

\* conflict resolution replaced the configured method's result
Resolved ==
    /\ pc = "done"
    /\ "lowAgreement" \in DOMAIN outcome.consensusMetadata
    /\ consensus.conflictResolution # None

\* C1: analyze fails with the all-providers-failed error exactly when no
\* provider call succeeded; with one or more successes it returns a merged
\* result built on a successful provider's result, under every configuration.
C1_Quorum ==
    Finished =>
        /\ (pc = "error") <=> (OkSet = {})
        /\ pc = "error" => outcome.kind = "error"
        /\ pc = "done" => /\ outcome.kind = "result"
                          /\ outcome.result.id \in OkSet
                          /\ outcome.result.ai
                          /\ outcome.providerResults # <<>>

C1_Witness ==
    /\ pc = "done"
    /\ Cardinality(OkSet) = 1
    /\ Cardinality(FailedSet) = MaxProviders - 1
    /\ consensus.method = "voting"
    /\ IsSet(consensus.requireAgreement)
    /\ consensus.conflictResolution = "highest-confidence"

\* C2: every engine is called without waiting on the calls before it (the
\* next call of the fan-out is enabled whatever the state of the earlier
\* ones); merging happens only after every call has returned or failed, and
\* keeps the result of every call that returned.
C2_FanOutFanIn ==
    /\ \A i \in Providers :
          ( /\ pc = (IF i = 1 THEN "idle" ELSE "fanout")
            /\ calls[i] = "notcalled"
            /\ \A j \in 1..(i - 1) : calls[j] # "notcalled" ) => ENABLED Invoke(i)
    /\ pc = "awaiting" => \A i \in Providers : calls[i] # "notcalled"
    /\ Finished => \A i \in Providers : calls[i] \in {"ok", "failed"}
    /\ pc = "done" =>
          /\ Len(outcome.providerResults) = Cardinality(OkSet)
          /\ {outcome.providerResults[k].id : k \in 1..Len(outcome.providerResults)} = OkSet

C2_Witness == \A i \in Providers : calls[i] = "inflight"

RECURSIVE SumOver(_, _)
SumOver(S, f) ==
    IF S = {} THEN 0
    ELSE LET x == CHOOSE y \in S : TRUE IN f[x] + SumOver(S \ {x}, f)

\* what the successful engines answered, as they answered it
Answered(field) == UNION {Range(returned[i][field]) : i \in OkSet}
OkWeight(S) == SumOver(S, engines)
OccurrencesIn(field, x) ==
    SumOver(OkSet, [i \in OkSet |-> Occurrences(returned[i][field], x)])
WeightedOccurrences(field, x) ==
    SumOver(OkSet, [i \in OkSet |-> engines[i] * Occurrences(returned[i][field], x)])
LabelWeight(s) == OkWeight({i \in OkSet : returned[i].sentiment = s})
ProvidersListing(field, x) == {i \in OkSet : x \in Range(returned[i][field])}
Merged(field) == Range(outcome.result[field])

\* C3: a provider whose call failed takes no part in the aggregation: it is
\* absent from providerResults, its weight is in no normalisation and in no
\* weighted sum, it casts no vote and is not in the voting threshold, the
\* agreement score is that of the successful results alone, and the call
\* still returns when another provider succeeded.
C3_FailedExcluded ==
    /\ (Finished /\ OkSet # {}) => pc = "done"
    /\ pc = "done" =>
        /\ \A k \in 1..Len(outcome.providerResults) :
              outcome.providerResults[k].id \notin FailedSet
        /\ (consensus.method = "weighted-average" /\ ~Resolved) =>
              /\ \A i \in OkSet :
                    LabelWeight(returned[i].sentiment) <= LabelWeight(outcome.result.sentiment)
              /\ \A t \in Answered("recs") :
                    t \in Merged("recs") <=>
                       WeightedOccurrences("recs", t) * RecommendationWeightDen
                          > RecommendationWeightNum * OkWeight(OkSet)
        /\ (consensus.method = "voting" /\ ~Resolved) =>
              \A f \in {"keyPoints", "themes"} : \A x \in Answered(f) :
                  x \in Merged(f) <=> 2 * OccurrencesIn(f, x) >= Cardinality(OkSet)
        /\ (IsSet(consensus.requireAgreement) /\ Cardinality(OkSet) = 1) =>
              /\ FracEq(outcome.consensusMetadata.agreementScore, <<1, 1>>)
              /\ "lowAgreement" \notin DOMAIN outcome.consensusMetadata
        /\ (IsSet(consensus.requireAgreement) /\ ~Resolved) =>
              FracEq(outcome.consensusMetadata.agreementScore,
                     calculateAgreement(outcome.providerResults))

C3_Witness ==
    /\ pc = "done"
    /\ consensus.method = "weighted-average"
    /\ ~Resolved
    /\ Cardinality(OkSet) = 2
    /\ \E i \in FailedSet : engines[i] = 5
    /\ \A i \in OkSet : engines[i] = 2
    /\ Cardinality(ProvidersListing("recs", "r1")) = 1
    /\ outcome.result.recs = <<"r1">>

\* C4: under Voting a key point (a theme) is in the merged output exactly
\* when at least half of the N successful providers, rounded up, list it.
C4_VotingMajority ==
    (pc = "done" /\ consensus.method = "voting" /\ ~Resolved) =>
        \A f \in {"keyPoints", "themes"} : \A x \in Answered(f) :
            x \in Merged(f) <=>
               2 * Cardinality(ProvidersListing(f, x)) >= Cardinality(OkSet)

\* C5: under WeightedAverage the merged sentiment is a label of greatest
\* summed normalised weight over the successful providers; for weights
\* 0.5, 0.3, 0.2 and sentiments positive, positive, negative it is positive,
\* with normalised weight 0.8.
NormalisedLabelWeight(s) == <<LabelWeight(s), OkWeight(OkSet)>>

C5_WeightedSentiment ==
    (pc = "done" /\ consensus.method = "weighted-average" /\ ~Resolved) =>
        /\ \A i \in OkSet :
              ~FracLt(NormalisedLabelWeight(outcome.result.sentiment),
                      NormalisedLabelWeight(returned[i].sentiment))
        /\ LET ok == Successful(calls)
           IN ( /\ [k \in 1..Len(ok) |-> engines[ok[k]]] = <<5, 3, 2>>
                /\ [k \in 1..Len(ok) |-> returned[ok[k]].sentiment]
                     = <<"positive", "positive", "negative">> )
              => /\ outcome.result.sentiment = "positive"
                 /\ FracEq(NormalisedLabelWeight("positive"), <<8, 10>>)

C5_Witness ==
    /\ pc = "done"
    /\ consensus.method = "weighted-average"
    /\ LET ok == Successful(calls)
       IN /\ [k \in 1..Len(ok) |-> engines[ok[k]]] = <<5, 3, 2>>
          /\ [k \in 1..Len(ok) |-> returned[ok[k]].sentiment]
               = <<"positive", "positive", "negative">>
    /\ outcome.result.sentiment = "positive"

\* C6: with requireAgreement = 0.9 and two successful providers whose
\* sentiments contradict and whose non-empty theme sets are disjoint, the
\* reported agreementScore is below 0.5 and the low-agreement flag is set.
Contradictory(i, j) ==
    /\ {returned[i].sentiment, returned[j].sentiment} = {"positive", "negative"}
    /\ returned[i].themes # <<>>
    /\ returned[j].themes # <<>>
    /\ Range(returned[i].themes) \cap Range(returned[j].themes) = {}

C6_AgreementTrigger ==
    ( /\ pc = "done"
      /\ consensus.requireAgreement = <<9, 10>>
      /\ \E i, j \in OkSet : OkSet = {i, j} /\ i # j /\ Contradictory(i, j) )
    => /\ "agreementScore" \in DOMAIN outcome.consensusMetadata
       /\ FracLt(outcome.consensusMetadata.agreementScore, <<1, 2>>)
       /\ "lowAgreement" \in DOMAIN outcome.consensusMetadata

\* C7: when requireAgreement is set and the score is below it, the flag is
\* set and the result is the conflict-resolution policy's (expert-review when
\* none is configured); otherwise the flag is not set and the result is the
\* configured method's.
C7_ConflictResolution ==
    (pc = "done" /\ IsSet(consensus.requireAgreement)) =>
        LET ok == Successful(calls)
            answers == [k \in 1..Len(ok) |-> returned[ok[k]]]
            weights == [k \in 1..Len(ok) |-> engines[ok[k]]]
            policy == IF consensus.conflictResolution = None
                      THEN "expert-review" ELSE consensus.conflictResolution
        IN IF FracLt(outcome.consensusMetadata.agreementScore, consensus.requireAgreement)
           THEN /\ "lowAgreement" \in DOMAIN outcome.consensusMetadata
                /\ outcome.result = resolveConflicts(answers, weights, policy).result
           ELSE /\ "lowAgreement" \notin DOMAIN outcome.consensusMetadata
                /\ outcome.result = ApplyMethod(consensus.method, answers, weights).result

\* C8: every outcome names, in resolutionMethodUsed, the method whose output
\* is returned: the conflict-resolution policy when it ran, the configured
\* method otherwise.
C8_ResolutionMethodUsed ==
    pc = "done" =>
        /\ "resolutionMethodUsed" \in DOMAIN outcome.consensusMetadata
        /\ outcome.consensusMetadata.resolutionMethodUsed
             = (IF Resolved THEN consensus.conflictResolution ELSE consensus.method)


\* a value the store accepts: its entry alone fits the size limit
Storable(v) == sizeCalculation(v) <= MaxSizeBytes

\* the latest two completed calls are set(k, v) and then get(k), with v
\* stored and not expired when get runs
SetThenGet ==
    /\ prev.op = "set"
    /\ last.op = "get"
    /\ last.key = prev.key
    /\ Storable(prev.value)
    /\ last.at - prev.at <= Ttl

\* C9: under the exact strategy, set(k, v) followed immediately by get(k),
\* with no expiry or eviction of k in between, returns v, for every key k and
\* every stored value v.
C9_RoundTrip ==
    (strategy = "exact" /\ SetThenGet) => last.value = prev.value

\* set and get at the two ends of the entry's lifetime, the value coming back
C9_Witness ==
    /\ strategy = "exact"
    /\ SetThenGet
    /\ last.at = prev.at + Ttl
    /\ last.value = prev.value
    /\ last.value # Null
    /\ stats.hits = 1

LookupHits ==
    /\ last' # last
    /\ last'.op = "get"
    /\ last'.value # Null

\* the entry a hit has just read: the most recently used one
EntryRead == cache'[Len(cache')]

\* C11: a lookup made later than the entry's creation time plus ttl returns a
\* miss, without explicit eviction and however often the entry was read
\* between its creation and that lookup.
C11_TtlExpiry ==
    [][LookupHits => now <= EntryRead.timestamp + Ttl]_vars

\* cosine similarity of the embeddings of two keys, squared
KeySimilarity(q, c) == cosineSimilarity(generateEmbedding(q), generateEmbedding(c))

\* the keys with a live entry
LiveKeys == Range(LruKeys(cache, now))

\* c is the best live candidate for the query q, q has no exact match, and
\* the similarity of c is exactly similarityThreshold
BestAtThreshold(q, c) ==
    /\ q \notin LiveKeys
    /\ c \in LiveKeys
    /\ KeySimilarity(q, c)[1] * SimilarityThresholdDen * SimilarityThresholdDen
         = SimilarityThresholdNum * SimilarityThresholdNum * KeySimilarity(q, c)[2]
    /\ \A d \in LiveKeys \ {c} : FracLt(KeySimilarity(q, d), KeySimilarity(q, c))

\* C12: under the semantic strategy a lookup with no exact match whose best
\* live candidate has cosine similarity exactly similarityThreshold is a hit
\* that returns that candidate's value.
C12_SemanticBoundary ==
    [][\A p \in pending : \A c \in Keys :
         (SemanticGetEnd(p) /\ BestAtThreshold(p.key, c))
             => last'.value = EntryOf(cache, c).value]_vars

\* both keys have been computed
KeysComputed == Len(fingerprint) = 2 /\ fingerprint[1] # <<>> /\ fingerprint[2] # <<>>

\* C13: two requests of the same type that differ only in the order of map
\* keys (at any depth), in the order of the elements of list values, or in
\* leading and trailing whitespace of string values get the identical key.
C13_KeyCanonical ==
    KeysComputed => fingerprint[1] = fingerprint[2]

\* C14: a failure while computing a fingerprint (or an embedding) during a
\* cache lookup or store is caught inside the cache path: it is counted as an
\* error, the lookup is a miss, and it does not make AnalysisEngine.analyze
\* fail.
C14_CacheErrorsCaught ==
    \A a \in Analyses :
        analyses[a].error = "fingerprint"
            => analyses[a].phase # "failed" /\ stats.errors > 0

\* k has a live entry
Live(k) == HasKey(cache, k) /\ ~IsStale(EntryOf(cache, k), now)

\* analyze call a returns in this step
Returns(a) == analyses[a].phase # "completed" /\ analyses'[a].phase = "completed"

\* C17: a cache hit returns the cached value without invoking the provider; a
\* miss invokes the provider exactly once and stores its output under the
\* request's key before the call returns, so that a later analyze of a request
\* with the same key, before expiry or eviction, is a hit without a provider
\* call.
C17_CacheFlow ==
    [][\A a \in Analyses :
         /\ (Returns(a) /\ analyses'[a].hit)
              => /\ analyses'[a].calls = 0
                 /\ analyses'[a].value = cache'[Len(cache')].value
         /\ (Returns(a) /\ ~analyses'[a].hit)
              => /\ analyses'[a].calls = 1
                 /\ Storable(analyses'[a].value)
                      => /\ HasKey(cache', analyses'[a].key)
                         /\ EntryOf(cache', analyses'[a].key).value = analyses'[a].value
         /\ \A k \in Keys :
              (Analyze(a, k) /\ Live(k))
                  => /\ Returns(a)
                     /\ analyses'[a].hit
                     /\ analyses'[a].value = EntryOf(cache, k).value]_vars

\* one call missed, asked the provider once and stored; another call for the
\* same key got that value from the cache without asking
C17_Witness ==
    \E a, b \in Analyses :
        /\ analyses[a].phase = "completed" /\ ~analyses[a].hit /\ analyses[a].calls = 1
        /\ analyses[b].phase = "completed" /\ analyses[b].hit /\ analyses[b].calls = 0
        /\ analyses[b].key = analyses[a].key
        /\ analyses[b].value = analyses[a].value
        /\ stats.hits = 1

\* the lookups that have returned
CompletedLookups == stats.total - Cardinality({p \in pending : p.op = "get"})

\* C15: under every strategy and every interleaving of get, set and
\* invalidate, each completed lookup is counted exactly once, as a hit, a miss
\* or an error: hits + misses + errors is the number of lookups.
C15_CountedOnce ==
    (\A p \in pending : p.op # "get")
        => stats.hits + stats.misses + stats.errors = CompletedLookups

\* a provider weight in (0, 1], in tenths
ValidWeight(w) == 0 < w /\ w <= 10

ValidConsensus ==
    /\ consensus.method \in Methods
    /\ consensus.conflictResolution \in Resolutions \cup {None}
    /\ \A i \in Providers : ValidWeight(engines[i])

ValidStrategy == strategy \in {"exact", "semantic", "fuzzy"}

\* C16: an invalid configuration (unknown cache strategy, unknown consensus
\* method or conflict resolution, provider weight outside (0, 1]) is rejected
\* at construction, before any analysis or cache operation runs.
C16_ConfigRejected ==
    /\ ~ValidConsensus => pc = "idle"
    /\ ~ValidStrategy => steps = 0

\* the successful provider with the greatest weight, the first one on a tie
Expert ==
    CHOOSE i \in OkSet :
        \A j \in OkSet : engines[j] < engines[i] \/ (engines[j] = engines[i] /\ i <= j)

\* the key points of the other successful providers, in provider order
OfferedByOthers ==
    LET ok == Successful(calls)
        others == SelectSeq(ok, LAMBDA i : i # Expert)
    IN Flatten([k \in 1..Len(others) |-> returned[others[k]].keyPoints])

\* those absent from the expert's list, each once, at most three
ExpectedAdditional ==
    Take(FirstSeen(SelectSeq(OfferedByOthers,
                             LAMBDA p : p \notin Range(returned[Expert].keyPoints))),
         MaxAdditionalKeyPoints)

\* C20: under expert-selection the merged result is the result of the provider
\* with the greatest weight (the first on a tie), unchanged except for its key
\* points: the expert's, followed by at most 3 additional ones, each absent
\* from the expert's list and appended once, from the others in provider order.
C20_ExpertSelection ==
    (pc = "done" /\ consensus.method = "expert-selection" /\ ~Resolved) =>
        outcome.result =
            [returned[Expert] EXCEPT !.keyPoints = @ \o ExpectedAdditional]

\* the successful providers whose response carried a sentiment
Reporters == {i \in OkSet : returned[i].parsedSentiment # None}

\* the weight (the votes, under voting) of the reporters of label s
ReportedWeight(s) ==
    LET of == {i \in Reporters : returned[i].parsedSentiment = s}
    IN IF consensus.method = "voting" THEN Cardinality(of) ELSE OkWeight(of)

\* C18: a successful provider that lacks an optional field casts no vote for
\* it and never suppresses it: under weighted-average and voting, when some
\* successful provider reports a sentiment, the merged sentiment is the one
\* with the greatest weight among the providers that report one; when some
\* provider reports key points (themes), the weighted merge has some.
C18_MissingIsNoVote ==
    (pc = "done" /\ consensus.method \in {"weighted-average", "voting"} /\ ~Resolved) =>
        /\ Reporters # {} =>
             /\ \E i \in Reporters : returned[i].parsedSentiment = outcome.result.sentiment
             /\ \A i \in Reporters :
                  ReportedWeight(returned[i].parsedSentiment)
                      <= ReportedWeight(outcome.result.sentiment)
        /\ consensus.method = "weighted-average" =>
             /\ Answered("keyPoints") # {} => Merged("keyPoints") # {}
             /\ Answered("themes") # {} => Merged("themes") # {}

\* s lists no item twice, in non-increasing order of accumulated weight
RankedByWeight(field, s) ==
    /\ \A i, j \in 1..Len(s) : i < j =>
         /\ s[i] # s[j]
         /\ WeightedOccurrences(field, s[i]) >= WeightedOccurrences(field, s[j])

\* s is made of the n heaviest items of pool (all of them when pool has fewer)
HeaviestOf(field, s, pool, n) ==
    /\ Range(s) \subseteq pool
    /\ Len(s) = Min2(n, Cardinality(pool))
    /\ RankedByWeight(field, s)
    /\ \A x \in pool \ Range(s) : \A y \in Range(s) :
         WeightedOccurrences(field, x) <= WeightedOccurrences(field, y)

\* the recommendations whose accumulated normalised weight exceeds 0.3
Recommended ==
    {t \in Answered("recs") :
        WeightedOccurrences("recs", t) * RecommendationWeightDen
            > RecommendationWeightNum * OkWeight(OkSet)}

ReturnedLabels == {returned[i].sentiment : i \in OkSet}

SentimentAgreementReturned ==
    <<Cardinality(OkSet) - Cardinality(ReturnedLabels) + 1, Cardinality(OkSet)>>

WithThemes == {i \in OkSet : returned[i].themes # <<>>}
ThemePairs == {p \in WithThemes \X WithThemes : p[1] < p[2]}

RECURSIVE OverlapSum(_)
OverlapSum(pairs) ==
    IF pairs = {} THEN <<0, 1>>
    ELSE LET p == CHOOSE q \in pairs : TRUE
         IN FracAdd(Jaccard(Range(returned[p[1]].themes), Range(returned[p[2]].themes)),
                    OverlapSum(pairs \ {p}))

ThemeOverlapReturned == FracDivInt(OverlapSum(ThemePairs), Cardinality(ThemePairs))

AgreementOfReturned ==
    IF Cardinality(OkSet) < 2 THEN <<1, 1>>
    ELSE IF Cardinality(WithThemes) < 2 THEN SentimentAgreementReturned
    ELSE FracDivInt(FracAdd(SentimentAgreementReturned, ThemeOverlapReturned), 2)

\* C21: the agreement score lies in [0, 1] and is the average of the sentiment
\* agreement (N - distinctLabels + 1)/N and the mean pairwise Jaccard overlap
\* of the non-empty theme sets, both of the outputs the providers returned.
C21_AgreementScore ==
    (pc = "done" /\ IsSet(consensus.requireAgreement)) =>
        /\ ~FracLt(outcome.consensusMetadata.agreementScore, <<0, 1>>)
        /\ ~FracLt(<<1, 1>>, outcome.consensusMetadata.agreementScore)
        /\ FracEq(outcome.consensusMetadata.agreementScore, AgreementOfReturned)

\* the satisfied factors of r, out of the seven that are examined
SatisfiedFactors(r) ==
    Cardinality({f \in {"summary", "keyPoints", "themes", "recs", "sections",
                        "status", "error"} :
        CASE f = "summary" -> r.ai /\ r.summary
          [] f = "keyPoints" -> r.ai /\ r.keyPoints # <<>>
          [] f = "themes" -> r.ai /\ r.themes # <<>>
          [] f = "recs" -> r.recs # <<>>
          [] f = "sections" -> r.sections
          [] f = "status" -> r.status = "completed"
          [] OTHER -> ~r.error})

\* C22: highest-confidence resolution returns the result of a provider that
\* maximises confidence x weight, confidence being the satisfied factors over
\* the seven factors, so that fewer populated fields mean a lower confidence.
C22_HighestConfidence ==
    (pc = "done" /\ Resolved /\ consensus.conflictResolution = "highest-confidence") =>
        \E i \in OkSet :
            /\ outcome.result.id = i
            /\ \A j \in OkSet :
                 SatisfiedFactors(returned[j]) * engines[j]
                     <= SatisfiedFactors(returned[i]) * engines[i]

\* the live keys whose similarity to the query q reaches the threshold
Qualifying(q) == {c \in LiveKeys : ReachesThresholdSquared(KeySimilarity(q, c))}

\* position of the entry of key c in the store: later is more recently used
Recency(c) == CHOOSE i \in 1..Len(cache) : cache[i].key = c

\* the qualifying key of highest similarity, the most recently used of equals
BestLive(q) ==
    CHOOSE c \in Qualifying(q) : \A d \in Qualifying(q) \ {c} :
        \/ FracLt(KeySimilarity(q, d), KeySimilarity(q, c))
        \/ FracEq(KeySimilarity(q, d), KeySimilarity(q, c)) /\ Recency(d) < Recency(c)

\* C23: under the semantic strategy a lookup with no exact match returns the
\* value of the live entry of highest cosine similarity among those reaching
\* similarityThreshold, the most recently accessed one of a tie, and it
\* misses if and only if no live entry reaches the threshold.
C23_SemanticBest ==
    [][\A p \in pending :
         (SemanticGetEnd(p) /\ p.key \notin LiveKeys)
             => last'.value = IF Qualifying(p.key) = {} THEN Null
                              ELSE EntryOf(cache, BestLive(p.key)).value]_vars

\* a step that completes a set
SetCompletes ==
    \/ \E k \in Keys : \E v \in Values : CacheSet(k, v)
    \/ \E p \in pending : SemanticSetEnd(p)

KeysOf(store) == [i \in 1..Len(store) |-> store[i].key]

\* the entries of other keys that a set leaves are the most recently used
\* ones of those it found
EvictsLeastRecent ==
    LET found == KeysOf(Without(cache, last'.key))
        left == KeysOf(Without(cache', last'.key))
    IN \E n \in 0..Len(found) : left = SubSeq(found, n + 1, Len(found))

\* C24: a set that evicts to satisfy the count or size cap evicts the least
\* recently used entries, a use being the entry's insertion or a lookup that
\* returned it (exact hit, semantic or fuzzy match): an inserted entry and an
\* entry returned by a lookup become the most recently used one, the order of
\* the others being kept.
C24_LruEviction ==
    [][ /\ SetCompletes =>
             /\ EvictsLeastRecent
             /\ HasKey(cache', last'.key) => cache'[Len(cache')].key = last'.key
        /\ LookupHits =>
             /\ EntryRead.value = last'.value
             /\ EntryRead.hits > 0
             /\ HasKey(cache, EntryRead.key)
             /\ strategy = "exact" => EntryRead.key = last'.key
             /\ SelectSeq(KeysOf(cache), LAMBDA k : k # EntryRead.key /\ HasKey(cache', k))
                  = KeysOf(Without(cache', EntryRead.key)) ]_vars

\* three keys were set, the first entry was returned by a lookup, and the set
\* that followed evicted the other entry
C24_Witness ==
    /\ strategy = "semantic"
    /\ Len(embeddings) = 3
    /\ Len(cache) = MaxEntryCount
    /\ stats.evictions = 1
    /\ stats.hits = 1
    /\ prev.op = "get"
    /\ prev.key = cache[1].key
    /\ prev.value = cache[1].value
    /\ cache[1].hits = 1
    /\ last.op = "set"
    /\ last.key = cache[2].key
    /\ embeddings[1].key = cache[1].key

\* what the successful providers returned, in provider order
ReturnedResults ==
    LET ok == Successful(calls) IN [k \in 1..Len(ok) |-> returned[ok[k]]]

SameAnswer(a, b) ==
    /\ a.sentiment = b.sentiment
    /\ a.keyPoints = b.keyPoints
    /\ a.themes = b.themes
    /\ a.recs = b.recs

\* C25: merging does not modify the per-provider results: after analyze
\* returns, under every method and conflict-resolution policy, each element of
\* providerResults has the sentiment, key points, themes and recommendations
\* the provider returned.
C25_ProviderResultsKept ==
    pc = "done" =>
        /\ Len(outcome.providerResults) = Len(ReturnedResults)
        /\ \A k \in 1..Len(ReturnedResults) :
             SameAnswer(outcome.providerResults[k], ReturnedResults[k])

\* the keys of the embedding index
Indexed == {embeddings[i].key : i \in 1..Len(embeddings)}

\* C26: under the semantic strategy, after any sequence of set, get,
\* invalidate and clear operations, with evictions and expiry, every key of
\* the embedding index has a live entry in the store, so the index holds no
\* more keys than the store's entry cap.
C26_IndexLive ==
    (strategy = "semantic" /\ pending = {}) =>
        /\ Indexed \subseteq LiveKeys
        /\ Cardinality(Indexed) <= MaxEntryCount

InProgress(c) == invocations[c].phase \in {"awaiting", "returning", "throwing"}

\* C27: analyzeWithMethod(request, m) computes its result with method m, an
\* overlapping plain analyze is merged with the configured method, and once
\* the calls have returned or failed the analyzer's method is the configured
\* one again, also when calls on the same analyzer overlap.
C27_MethodIsolated ==
    /\ \A c \in Invocations :
         invocations[c].phase = "done" =>
             invocations[c].used = IF invocations[c].kind = "analyzeWithMethod"
                                   THEN invocations[c].method ELSE Configured
    /\ (\A c \in Invocations : ~InProgress(c)) => consensus.method = Configured

\* the chunks of a finished split, as sets of content positions
SplitDone == stream.pc \in {"chunks", "complete", "threw"}
Positions(chunk) == {p \in 0..(stream.content - 1) : chunk[1] <= p /\ p < chunk[2]}

C29_ChunksCover ==
    (SplitDone /\ stream.config.chunkSize > stream.config.overlap) =>
        LET chunks == stream.chunks
        IN  /\ \A p \in 0..(stream.content - 1) :
                  \E k \in DOMAIN chunks : p \in Positions(chunks[k])
            /\ \A k \in 1..(Len(chunks) - 1) :
                  /\ chunks[k][1] < chunks[k + 1][1]
                  /\ chunks[k][2] - chunks[k + 1][1] = stream.config.overlap

BulkEnded == bulk.pc \in {"returned", "threw"}
BulkStarted == bulk.pc \notin {"none", "idle"}

\* C30: processContents returns one individual result per content, in input
\* order; the analyses in progress all belong to the current batch; a content
\* whose analysis fails does not keep processContents from returning; with
\* retryFailed such a content has been analysed a second time.
C30_BulkResults ==
    BulkStarted =>
        /\ \A c \in 1..bulk.contents :
              bulk.analyses[c].state = "inflight" => c \in CurrentBatch
        /\ bulk.pc # "threw"
        /\ bulk.pc = "returned" =>
              /\ Len(bulk.results) = bulk.contents
              /\ \A k \in 1..bulk.contents : bulk.results[k].content = k
        /\ (BulkEnded /\ bulk.retryFailed) =>
              \A c \in 1..bulk.contents :
                  bulk.analyses[c].state = "failed" => bulk.analyses[c].calls = 2

============================================================================
